---- MODULE Spec2Model ----
(***************************************************************************)
(* Model of the reconciliation engine of conciliacao-bancaria              *)
(* (internal/domain/service/reconciliation_service.go).                    *)
(*                                                                         *)
(* One behaviour is one call of ReconcileBilletsWithPayments: Init picks   *)
(* the two input slices, the actions are the steps of the call in program  *)
(* order (lookup construction, one phase-1 iteration per billet, one       *)
(* phase-2 iteration per payment, the final collection of the billets left *)
(* over).                                                                  *)
(*                                                                         *)
(* Amounts are float64 in the source; the model uses integers and treats   *)
(* the percentage test exactly (diff * 100 against tolerance * amount),    *)
(* with the IEEE-754 outcomes of a division by an amount of 0 (+Inf, NaN)  *)
(* spelled out.  Dates are integer day numbers; the model keeps them far   *)
(* from the range where time.Time.Sub saturates.                           *)
(***************************************************************************)
EXTENDS Integers, Sequences, FiniteSets, TLC

VARIABLES billets, payments, pc, i, j, paymentsByReferenceID,
          reconciledBilletsMap, usedPaymentsMap, reconciledBillets,
          nonReconciledBillets, err, request, run, previous,
          second, table, batch, call, now

vars == <<billets, payments, pc, i, j, paymentsByReferenceID,
          reconciledBilletsMap, usedPaymentsMap, reconciledBillets,
          nonReconciledBillets, err, request, run, previous,
          second, table, batch, call, now>>

\* The rest of the program, which a call of the engine neither reads nor
\* writes: the locals of another call in progress on the same service, the
\* rows of a database table, the batch and the operation of a repository
\* or use case at work, and the wall clock.
outside == <<second, table, batch, call, now>>

\* What the engine neither reads nor writes: the HTTP request that led to
\* the call, the number of the call, the report of the call before, and
\* the rest of the program.
caller == <<request, run, previous, outside>>

\* ------------------------------------------------------------------------
\* Bounds of the model
\* ------------------------------------------------------------------------
MaxBillets == 2
MaxPayments == 2

\* ------------------------------------------------------------------------
\* Program constants
\* ------------------------------------------------------------------------
TolerancePercentage == 5

StatusSuccessful == "conciliado_com_sucesso"
StatusDifferentValue == "valor_diferente"
StatusNotReconciled == "nao_conciliado"

StrategyReferenceID == "reference_id"
StrategyAccountAmountDate == "conta_valor_data"

\* A nil *string (ReferenceID is a pointer in Billet and Payment).
Nil == "<nil>"

\* ------------------------------------------------------------------------
\* Records
\* ------------------------------------------------------------------------
Billet(id, account, amount, date, ref) ==
    [ID |-> id, BankAccount |-> account, Amount |-> amount,
     IssuanceDate |-> date, ReferenceID |-> ref]

Payment(id, account, amount, date, ref) ==
    [ID |-> id, BankAccount |-> account, Amount |-> amount,
     PaymentDate |-> date, ReferenceID |-> ref]

\* The result with the account of the payment in place of the billet's.
ReconciledBilletOfPaymentAccount(billet, payment, status, strategy, diff) ==
    [BilletID |-> billet.ID,
     BankAccount |-> payment.BankAccount,
     TransactionID |-> payment.ID,
     ConciliationStatus |-> status,
     ConciliationStrategy |-> strategy,
     ReferenceID |-> billet.ReferenceID,
     AmountDiff |-> diff]

ReconciledBillet(billet, payment, status, strategy, amountDiff) ==
    [BilletID |-> billet.ID,
     BankAccount |-> billet.BankAccount,
     TransactionID |-> payment.ID,
     ConciliationStatus |-> status,
     ConciliationStrategy |-> strategy,
     ReferenceID |-> billet.ReferenceID,
     AmountDiff |-> amountDiff]

\* ------------------------------------------------------------------------
\* Arithmetic of the two phases
\* ------------------------------------------------------------------------
Abs(x) == IF x < 0 THEN -x ELSE x

\* The difference without math.Abs.
AmountDiffSigned(payment, billet) == payment.Amount - billet.Amount

\* amountDiff := math.Abs(payment.Amount - billet.Amount)
AmountDiffOf(payment, billet) == Abs(payment.Amount - billet.Amount)

\* The boundary excluded: amountDiffPercentage < TolerancePercentage.
PercentageBelowTolerance(amountDiff, amount) ==
    IF amount = 0 THEN FALSE
    ELSE amountDiff * 100 < TolerancePercentage * amount

\* amountDiffPercentage <= TolerancePercentage, where
\* amountDiffPercentage := (amountDiff / billet.Amount) * 100.
\* billet.Amount = 0 gives +Inf (amountDiff > 0) or NaN (amountDiff = 0):
\* neither is <= 5.
PercentageWithinTolerance(amountDiff, amount) ==
    IF amount = 0 THEN FALSE
    ELSE amountDiff * 100 <= TolerancePercentage * amount

\* The ratio compared with the tolerance without the factor 100.
RatioExceedsTolerance(amountDiff, amount) ==
    IF amount = 0 THEN amountDiff > 0
    ELSE amountDiff > TolerancePercentage * amount

\* A percentage that is not a number (0 / 0) taken as beyond the tolerance.
PercentageExceedsOrUndefined(amountDiff, amount) ==
    IF amount = 0 THEN TRUE
    ELSE amountDiff * 100 > TolerancePercentage * amount

\* amountDiffPercentage > TolerancePercentage: +Inf is, NaN is not.
PercentageExceedsTolerance(amountDiff, amount) ==
    IF amount = 0 THEN amountDiff > 0
    ELSE amountDiff * 100 > TolerancePercentage * amount

\* dateDiff := payment.PaymentDate.Sub(billet.IssuanceDate); negated if < 0
DateDiffOf(payment, billet) == Abs(payment.PaymentDate - billet.IssuanceDate)

\* A new result put in front of the others.
PrependMatch(results, r) == <<r>> \o results

\* *reconciledBillets = append(*reconciledBillets, ...), lines 122 and 217
AppendMatch(results, r) == Append(results, r)

\* ------------------------------------------------------------------------
\* Phase 1: the lookup of payments by reference id (lines 80-86)
\* ------------------------------------------------------------------------
\* The lookup without the test for the empty string (line 83): every
\* payment with a non-nil reference id gets an entry.
RECURSIVE BuildPaymentsByReferenceIDEmptyToo(_, _, _, _)
BuildPaymentsByReferenceIDEmptyToo(ps, k, used, m) ==
    IF k > Len(ps) THEN m
    ELSE LET payment == ps[k]
             ref == payment.ReferenceID
         IN IF ref # Nil /\ payment.ID \notin used
            THEN BuildPaymentsByReferenceIDEmptyToo(ps, k + 1, used,
                    [r \in (DOMAIN m) \cup {ref} |->
                        IF r = ref THEN k ELSE m[r]])
            ELSE BuildPaymentsByReferenceIDEmptyToo(ps, k + 1, used, m)

\* The map after the loop over payments[k..]: a later payment with the same
\* reference id overwrites the entry of an earlier one.  The value is the
\* position of the payment in the payments slice (the *model.Payment).
RECURSIVE BuildPaymentsByReferenceID(_, _, _, _)
BuildPaymentsByReferenceID(ps, k, used, m) ==
    IF k > Len(ps) THEN m
    ELSE LET payment == ps[k]
             ref == payment.ReferenceID
         IN IF ref # Nil /\ ref # "" /\ payment.ID \notin used
            THEN BuildPaymentsByReferenceID(ps, k + 1, used,
                    [r \in (DOMAIN m) \cup {ref} |->
                        IF r = ref THEN k ELSE m[r]])
            ELSE BuildPaymentsByReferenceID(ps, k + 1, used, m)

EmptyMap == [r \in {} |-> 0]

\* ------------------------------------------------------------------------
\* Phase 1: one iteration of the loop over billets (lines 89-135)
\* ------------------------------------------------------------------------
\* The zero value of `var status model.ConciliationStatus`: the iteration
\* took the `continue` of line 118 (or never got to assign a status).
NoStatus == ""

\* The payment the iteration looks at: its position in payments, or 0 when
\* the iteration ends at one of the `continue`s of lines 91-104.
Phase1Lookup(billet, m, reconciled) ==
    IF billet.ID \in reconciled THEN 0
    ELSE IF billet.ReferenceID = Nil \/ billet.ReferenceID = "" THEN 0
    ELSE IF billet.ReferenceID \notin DOMAIN m THEN 0
    ELSE m[billet.ReferenceID]

\* Any difference within the tolerance, 0 included, reported as a
\* different value.
Phase1StatusNoExactCase(payment, billet) ==
    LET amountDiff == AmountDiffOf(payment, billet)
    IN IF PercentageWithinTolerance(amountDiff, billet.Amount)
       THEN StatusDifferentValue
       ELSE NoStatus

\* Lines 106-119.
Phase1Status(payment, billet) ==
    LET amountDiff == AmountDiffOf(payment, billet)
    IN IF amountDiff = 0 THEN StatusSuccessful
       ELSE IF PercentageWithinTolerance(amountDiff, billet.Amount)
            THEN StatusDifferentValue
            ELSE NoStatus

\* ------------------------------------------------------------------------
\* Phase 2: the scan of the billets for one payment (lines 152-204)
\* ------------------------------------------------------------------------
\* bestBillet is the position of the billet in billets, 0 for nil.  The
\* initial minDateDiff and bestAmountDiff (math.MaxInt64, math.MaxFloat64)
\* are never compared: the bestBillet == nil test comes first.
NoBest == [bestBillet |-> 0, minDateDiff |-> "MaxInt64",
           bestAmountDiff |-> "MaxFloat64"]

\* The third criterion (the older billet) left out.
IsBetterWithoutOldest(bs, best, billet, dateDiff, amountDiff) ==
    IF best.bestBillet = 0 THEN TRUE
    ELSE IF dateDiff < best.minDateDiff THEN TRUE
    ELSE IF dateDiff = best.minDateDiff /\ amountDiff < best.bestAmountDiff
         THEN TRUE
    ELSE FALSE

\* The first two criteria in the other order: amount before date.
IsBetterAmountFirst(bs, best, billet, dateDiff, amountDiff) ==
    IF best.bestBillet = 0 THEN TRUE
    ELSE IF amountDiff < best.bestAmountDiff THEN TRUE
    ELSE IF amountDiff = best.bestAmountDiff /\ dateDiff < best.minDateDiff
         THEN TRUE
    ELSE IF /\ dateDiff = best.minDateDiff
            /\ amountDiff = best.bestAmountDiff
            /\ billet.IssuanceDate < bs[best.bestBillet].IssuanceDate
         THEN TRUE
    ELSE FALSE

\* The third criterion with "not after" in place of "before": a later
\* billet that ties on all three keys replaces the best one.
IsBetterLastTieWins(bs, best, billet, dateDiff, amountDiff) ==
    IF best.bestBillet = 0 THEN TRUE
    ELSE IF dateDiff < best.minDateDiff THEN TRUE
    ELSE IF dateDiff = best.minDateDiff /\ amountDiff < best.bestAmountDiff
         THEN TRUE
    ELSE IF /\ dateDiff = best.minDateDiff
            /\ amountDiff = best.bestAmountDiff
            /\ billet.IssuanceDate <= bs[best.bestBillet].IssuanceDate
         THEN TRUE
    ELSE FALSE

\* The date distance alone: neither the amount difference nor the issuance
\* date breaks a tie.
IsBetterDateOnly(bs, best, billet, dateDiff, amountDiff) ==
    IF best.bestBillet = 0 THEN TRUE
    ELSE IF dateDiff < best.minDateDiff THEN TRUE
    ELSE FALSE

\* Lines 187-197.
IsBetter(bs, best, billet, dateDiff, amountDiff) ==
    IF best.bestBillet = 0 THEN TRUE
    ELSE IF dateDiff < best.minDateDiff THEN TRUE
    ELSE IF dateDiff = best.minDateDiff /\ amountDiff < best.bestAmountDiff
         THEN TRUE
    ELSE IF /\ dateDiff = best.minDateDiff
            /\ amountDiff = best.bestAmountDiff
            /\ billet.IssuanceDate < bs[best.bestBillet].IssuanceDate
         THEN TRUE
    ELSE FALSE

\* The inner loop without the test of the bank account (lines 164-166).
RECURSIVE ScanBilletsOfAnyAccount(_, _, _, _, _)
ScanBilletsOfAnyAccount(bs, k, payment, reconciled, best) ==
    IF k > Len(bs) THEN best
    ELSE LET billet == bs[k]
             amountDiff == AmountDiffOf(payment, billet)
             dateDiff == DateDiffOf(payment, billet)
         IN IF billet.ID \in reconciled
            THEN ScanBilletsOfAnyAccount(bs, k + 1, payment, reconciled,
                                         best)
            ELSE IF PercentageExceedsTolerance(amountDiff, billet.Amount)
            THEN ScanBilletsOfAnyAccount(bs, k + 1, payment, reconciled,
                                         best)
            ELSE IF IsBetter(bs, best, billet, dateDiff, amountDiff)
            THEN ScanBilletsOfAnyAccount(bs, k + 1, payment, reconciled,
                    [bestBillet |-> k, minDateDiff |-> dateDiff,
                     bestAmountDiff |-> amountDiff])
            ELSE ScanBilletsOfAnyAccount(bs, k + 1, payment, reconciled,
                                         best)

\* The inner loop without the test of reconciledBilletsMap (lines 159-161).
RECURSIVE ScanBilletsAlreadyReconciledToo(_, _, _, _, _)
ScanBilletsAlreadyReconciledToo(bs, k, payment, reconciled, best) ==
    IF k > Len(bs) THEN best
    ELSE LET billet == bs[k]
             amountDiff == AmountDiffOf(payment, billet)
             dateDiff == DateDiffOf(payment, billet)
         IN IF billet.BankAccount # payment.BankAccount
            THEN ScanBilletsAlreadyReconciledToo(bs, k + 1, payment,
                                                 reconciled, best)
            ELSE IF PercentageExceedsTolerance(amountDiff, billet.Amount)
            THEN ScanBilletsAlreadyReconciledToo(bs, k + 1, payment,
                                                 reconciled, best)
            ELSE IF IsBetter(bs, best, billet, dateDiff, amountDiff)
            THEN ScanBilletsAlreadyReconciledToo(bs, k + 1, payment,
                    reconciled,
                    [bestBillet |-> k, minDateDiff |-> dateDiff,
                     bestAmountDiff |-> amountDiff])
            ELSE ScanBilletsAlreadyReconciledToo(bs, k + 1, payment,
                                                 reconciled, best)

\* Lines 157-204: the inner loop from billets[k] on.
RECURSIVE ScanBillets(_, _, _, _, _)
ScanBillets(bs, k, payment, reconciled, best) ==
    IF k > Len(bs) THEN best
    ELSE LET billet == bs[k]
             amountDiff == AmountDiffOf(payment, billet)
             dateDiff == DateDiffOf(payment, billet)
         IN IF billet.ID \in reconciled
            THEN ScanBillets(bs, k + 1, payment, reconciled, best)
            ELSE IF billet.BankAccount # payment.BankAccount
            THEN ScanBillets(bs, k + 1, payment, reconciled, best)
            ELSE IF PercentageExceedsTolerance(amountDiff, billet.Amount)
            THEN ScanBillets(bs, k + 1, payment, reconciled, best)
            ELSE IF IsBetter(bs, best, billet, dateDiff, amountDiff)
            THEN ScanBillets(bs, k + 1, payment, reconciled,
                    [bestBillet |-> k, minDateDiff |-> dateDiff,
                     bestAmountDiff |-> amountDiff])
            ELSE ScanBillets(bs, k + 1, payment, reconciled, best)

\* Every phase-2 match reported as exact.
Phase2StatusAlwaysSuccessful(bestAmountDiff) == StatusSuccessful

\* Lines 208-214.
Phase2Status(bestAmountDiff) ==
    IF bestAmountDiff = 0 THEN StatusSuccessful ELSE StatusDifferentValue

\* ------------------------------------------------------------------------
\* The input slices after a match (lines 122-134 and 216-230)
\* ------------------------------------------------------------------------
\* The matched record marked in place through its pointer.
RecordsMarkedAfterMatch(records, k) ==
    [records EXCEPT ![k].ReferenceID = StatusSuccessful]

\* A match appends to the result and sets the two maps; the records the
\* slices point to are read, never assigned.
RecordsAfterMatch(records, k) == records

\* ------------------------------------------------------------------------
\* The billets left over (lines 57-61)
\* ------------------------------------------------------------------------
\* Every billet reported as not reconciled.
IsAnyBillet(billet, reconciled) == TRUE

\* The test of line 58 without its negation.
IsReconciled(billet, reconciled) == billet.ID \in reconciled

\* Line 58: !reconciledBilletsMap[billet.ID]
IsNonReconciled(billet, reconciled) == billet.ID \notin reconciled

\* ------------------------------------------------------------------------
\* Inputs
\* ------------------------------------------------------------------------
BilletIDs == <<"B001", "B002", "B003", "B004", "B005">>
PaymentIDs == <<"T100", "T101", "T102", "T103", "T104">>

SeqsUpTo(S, n) == UNION {[1..m -> S] : m \in 0..n}

WithIDs(records, ids) ==
    [k \in DOMAIN records |-> [records[k] EXCEPT !.ID = ids[k]]]

\* The example data of the README (lines 116-131); dates are days of March
\* 2024, amounts are in whole currency units.
ReferenceBillets ==
    << Billet("B001", "C123", 100, 1, "REF001"),
       Billet("B002", "C345", 200, 2, Nil),
       Billet("B003", "C678", 300, 3, "REF003"),
       Billet("B004", "C910", 150, 4, "REF004") >>

ReferencePayments ==
    << Payment("T100", "C123", 100, 5, "REF001"),
       Payment("T101", "C345", 195, 4, Nil),
       Payment("T102", "C678", 300, 10, "REF999"),
       Payment("T103", "C999", 150, 6, "REF004") >>

\* Inputs that exercise the reference ids: absent, empty, shared between
\* several billets or several payments, with amounts equal, at the
\* tolerance boundary and beyond it, on the billet's account or another.
RefIdBillets ==
    {Billet("", "C123", 100, 1, r) : r \in {Nil, "", "REF001", "REF004"}}

RefIdPayments ==
    {Payment("", "C123", v, 2, r) :
        v \in {100, 105, 106}, r \in {"", "REF001", "REF004"}}
    \cup {Payment("", "C345", 100, 2, "REF001"),
          Payment("", "C123", 100, 2, Nil)}

\* Inputs that exercise the choice among billets of one account: issuance
\* dates before, on and after the payment date, amounts equal, within and
\* beyond the tolerance.
DateBillets ==
    {Billet("", "C123", v, d, Nil) : v \in {100, 105}, d \in {1, 2, 3}}
    \cup {Billet("", "C345", 100, 2, Nil)}

DatePayments ==
    {Payment("", "C123", v, 2, Nil) : v \in {100, 106}}
    \cup {Payment("", "C345", 100, 2, Nil)}

\* Inputs with billets and payments of amount 0.
ZeroBillets ==
    {Billet("", "C123", v, 1, r) : v \in {0, 100}, r \in {Nil, "REF001"}}

ZeroPayments ==
    {Payment("", "C123", v, 2, r) : v \in {0, 100}, r \in {Nil, "REF001"}}

\* The input slices drawn from a set of billets and a set of payments;
\* the identifiers are given by position, so they are distinct.
InputsFrom(bs, ps, billetSet, paymentSet) ==
    \E b \in SeqsUpTo(billetSet, MaxBillets),
       p \in SeqsUpTo(paymentSet, MaxPayments) :
       /\ bs = WithIDs(b, BilletIDs)
       /\ ps = WithIDs(p, PaymentIDs)

Inputs(bs, ps) ==
    \/ /\ bs = ReferenceBillets
       /\ ps = ReferencePayments
    \/ InputsFrom(bs, ps, RefIdBillets, RefIdPayments)
    \/ InputsFrom(bs, ps, DateBillets, DatePayments)
    \/ InputsFrom(bs, ps, ZeroBillets, ZeroPayments)

\* ------------------------------------------------------------------------
\* The call of ReconcileBilletsWithPayments
\* ------------------------------------------------------------------------
\* The error value of a call that has not returned yet.
Pending == "<pending>"

\* A ReconciliationRequest; Tolerance is a *float64, << >> when nil.
\* (src/unnamed/part_005, lines 32-37)
Request(tolerance) == [Tolerance |-> tolerance]

\* No other call of the engine in progress.
NotStarted == [pc |-> "idle"]

\* No repository or use case operation in progress.
Idle == [op |-> "idle"]

\* An empty table (no row for any identifier).
NoRows == [id \in {} |-> 0]

\* Nothing but one call of the engine is going on.
EngineOnly ==
    /\ second = NotStarted
    /\ table = NoRows
    /\ batch = << >>
    /\ call = Idle
    /\ now = 0

\* Lines 39-48: the two maps and the result are created empty by the call.
\* The engine is called directly, with no tolerance of the caller's.
Init ==
    /\ EngineOnly
    /\ Inputs(billets, payments)
    /\ request = Request(<< >>)
    /\ run = 1
    /\ previous = << >>
    /\ err = Pending
    /\ pc = "lookup"
    /\ i = 1
    /\ j = 1
    /\ paymentsByReferenceID = EmptyMap
    /\ reconciledBilletsMap = {}
    /\ usedPaymentsMap = {}
    /\ reconciledBillets = << >>
    /\ nonReconciledBillets = << >>

\* Where control goes when the loop over billets (phase 1) is at index k.
AfterPhase1(k) ==
    IF k <= Len(billets) THEN "phase1"
    ELSE IF Len(payments) > 0 THEN "phase2"
    ELSE "aggregate"

\* The loop over payments left after its first iteration.
AfterPhase2FirstPaymentOnly(k) == "aggregate"

\* Where control goes when the loop over payments (phase 2) is at index k.
AfterPhase2(k) ==
    IF k <= Len(payments) THEN "phase2" ELSE "aggregate"

\* reconcileByReferenceID, lines 80-86.
BuildLookup ==
    /\ pc = "lookup"
    /\ paymentsByReferenceID' =
          BuildPaymentsByReferenceID(payments, 1, usedPaymentsMap, EmptyMap)
    /\ pc' = AfterPhase1(1)
    /\ UNCHANGED <<billets, payments, i, j, reconciledBilletsMap,
                   usedPaymentsMap, reconciledBillets, nonReconciledBillets,
                   err, caller>>

\* reconcileByReferenceID, one iteration of lines 89-135.
Phase1Step ==
    /\ pc = "phase1"
    /\ i <= Len(billets)
    /\ LET billet == billets[i]
           k == Phase1Lookup(billet, paymentsByReferenceID,
                             reconciledBilletsMap)
           status == IF k = 0 THEN NoStatus
                     ELSE Phase1Status(payments[k], billet)
       IN IF status # NoStatus
          THEN /\ reconciledBillets' = AppendMatch(reconciledBillets,
                     ReconciledBillet(billet, payments[k], status,
                         StrategyReferenceID,
                         AmountDiffOf(payments[k], billet)))
               /\ reconciledBilletsMap' =
                     reconciledBilletsMap \cup {billet.ID}
               /\ usedPaymentsMap' = usedPaymentsMap \cup {payments[k].ID}
               /\ billets' = RecordsAfterMatch(billets, i)
               /\ payments' = RecordsAfterMatch(payments, k)
          ELSE UNCHANGED <<reconciledBillets, reconciledBilletsMap,
                           usedPaymentsMap, billets, payments>>
    /\ i' = i + 1
    /\ pc' = AfterPhase1(i + 1)
    /\ UNCHANGED <<j, paymentsByReferenceID, nonReconciledBillets, err,
                   caller>>

\* reconcileByAccountValueDate, one iteration of lines 147-231.
Phase2Step ==
    /\ pc = "phase2"
    /\ j <= Len(payments)
    /\ LET payment == payments[j]
           best == IF payment.ID \in usedPaymentsMap THEN NoBest
                   ELSE ScanBillets(billets, 1, payment,
                                    reconciledBilletsMap, NoBest)
       IN IF best.bestBillet # 0
          THEN /\ reconciledBillets' = AppendMatch(reconciledBillets,
                     ReconciledBillet(billets[best.bestBillet], payment,
                         Phase2Status(best.bestAmountDiff),
                         StrategyAccountAmountDate, best.bestAmountDiff))
               /\ reconciledBilletsMap' =
                     reconciledBilletsMap \cup {billets[best.bestBillet].ID}
               /\ usedPaymentsMap' = usedPaymentsMap \cup {payment.ID}
               /\ billets' = RecordsAfterMatch(billets, best.bestBillet)
               /\ payments' = RecordsAfterMatch(payments, j)
          ELSE UNCHANGED <<reconciledBillets, reconciledBilletsMap,
                           usedPaymentsMap, billets, payments>>
    /\ j' = j + 1
    /\ pc' = AfterPhase2(j + 1)
    /\ UNCHANGED <<i, paymentsByReferenceID, nonReconciledBillets, err,
                   caller>>

\* ReconcileBilletsWithPayments, lines 56-63: the billets left over, then
\* `return result, nil`.
CollectNonReconciled ==
    /\ pc = "aggregate"
    /\ nonReconciledBillets' =
          SelectSeq(billets,
                    LAMBDA b : IsNonReconciled(b, reconciledBilletsMap))
    /\ err' = Nil
    /\ pc' = "done"
    /\ UNCHANGED <<billets, payments, i, j, paymentsByReferenceID,
                   reconciledBilletsMap, usedPaymentsMap, reconciledBillets,
                   caller>>

Next ==
    \/ BuildLookup
    \/ Phase1Step
    \/ Phase2Step
    \/ CollectNonReconciled

Spec == Init /\ [][Next]_vars

\* ------------------------------------------------------------------------
\* A second call on the same service, with the same arguments
\* ------------------------------------------------------------------------
MaxRuns == 2

\* What a call returns (model.ReconciliationResult).
Report ==
    [ReconciledBillets |-> reconciledBillets,
     NonReconciledBillets |-> nonReconciledBillets]

\* The map of the call before, used again.
KeptReconciledBilletsMap == reconciledBilletsMap

\* The consumed-payment set of the call in progress, taken over.
KeptUsedPaymentsMap == usedPaymentsMap

\* Lines 40 and 43: make(map[string]bool), once per call.
NewReconciledBilletsMap == {}
NewUsedPaymentsMap == {}

\* The caller keeps the report and calls ReconcileBilletsWithPayments again
\* with the same slices: lines 39-48 run again.
CallAgain ==
    /\ pc = "done"
    /\ run < MaxRuns
    /\ previous' = <<Report>>
    /\ run' = run + 1
    /\ reconciledBilletsMap' = NewReconciledBilletsMap
    /\ usedPaymentsMap' = NewUsedPaymentsMap
    /\ reconciledBillets' = << >>
    /\ nonReconciledBillets' = << >>
    /\ paymentsByReferenceID' = EmptyMap
    /\ i' = 1
    /\ j' = 1
    /\ err' = Pending
    /\ pc' = "lookup"
    /\ UNCHANGED <<billets, payments, request, outside>>

NextTwice ==
    \/ Next
    \/ CallAgain

SpecTwice == Init /\ [][NextTwice]_vars

\* ------------------------------------------------------------------------
\* The HTTP handler in front of the engine
\* (internal/infrastructure/http/handler/reconciliation_handler.go)
\* ------------------------------------------------------------------------
\* req.Validate(): the error for a request the caller must not pass on, nil
\* for any other.  A tolerance, when given, must be >= 0.
Validate(req) ==
    IF req.Tolerance # << >> /\ req.Tolerance[1] < 0
    THEN "tolerance must be >= 0"
    ELSE Nil

\* The handler going on to the use case whatever Validate returned.
AfterValidateIgnoringError(validationErr) == "lookup"

\* Lines 34-41: http.StatusBadRequest and return on a validation error,
\* the reconciliation otherwise.
AfterValidate(validationErr) ==
    IF validationErr # Nil THEN "bad_request" ELSE "lookup"

\* RunReconciliation, lines 25-41, after the request body is decoded.
RunReconciliation ==
    /\ pc = "request"
    /\ pc' = AfterValidate(Validate(request))
    /\ UNCHANGED <<billets, payments, i, j, paymentsByReferenceID,
                   reconciledBilletsMap, usedPaymentsMap, reconciledBillets,
                   nonReconciledBillets, err, caller>>

\* Requests without a tolerance and with a negative, a smaller, the
\* default and a larger one, over records whose amounts differ by 0, 2, 5
\* and 8 percent.
Requests ==
    {Request(<< >>)} \cup {Request(<<t>>) : t \in {-1, 2, 5, 10}}

RequestBillets ==
    {Billet("", "C123", 100, 1, r) : r \in {Nil, "REF001"}}

RequestPayments ==
    {Payment("", "C123", v, 2, r) :
        v \in {100, 102, 105, 108}, r \in {Nil, "REF001"}}

InitRequest ==
    /\ EngineOnly
    /\ InputsFrom(billets, payments, RequestBillets, RequestPayments)
    /\ request \in Requests
    /\ run = 1
    /\ previous = << >>
    /\ err = Pending
    /\ pc = "request"
    /\ i = 1
    /\ j = 1
    /\ paymentsByReferenceID = EmptyMap
    /\ reconciledBilletsMap = {}
    /\ usedPaymentsMap = {}
    /\ reconciledBillets = << >>
    /\ nonReconciledBillets = << >>

NextRequest ==
    \/ RunReconciliation
    \/ Next

SpecRequest == InitRequest /\ [][NextRequest]_vars

\* ------------------------------------------------------------------------
\* Another call of ReconcileBilletsWithPayments on the same service while
\* the first is in progress.  DefaultReconciliationService (lines 23-26)
\* has no fields; all the state of a call is in its locals.
\* ------------------------------------------------------------------------
\* The locals of a call at its entry (lines 34-48), for given maps.
EntryLocals(bs, ps, reconciled, used) ==
    [pc |-> "lookup", billets |-> bs, payments |-> ps, i |-> 1, j |-> 1,
     paymentsByReferenceID |-> EmptyMap,
     reconciledBilletsMap |-> reconciled, usedPaymentsMap |-> used,
     reconciledBillets |-> << >>, nonReconciledBillets |-> << >>,
     err |-> Pending]

\* Where control goes when the loop over c.billets is at index k.
PcAfterPhase1(c, k) ==
    IF k <= Len(c.billets) THEN "phase1"
    ELSE IF Len(c.payments) > 0 THEN "phase2"
    ELSE "aggregate"

\* Where control goes when the loop over c.payments is at index k.
PcAfterPhase2(c, k) ==
    IF k <= Len(c.payments) THEN "phase2" ELSE "aggregate"

\* Lines 80-86 on the locals c.
LookupOf(c) ==
    [c EXCEPT
        !.paymentsByReferenceID =
            BuildPaymentsByReferenceID(c.payments, 1, c.usedPaymentsMap,
                                       EmptyMap),
        !.pc = PcAfterPhase1(c, 1)]

\* One iteration of lines 89-135 on the locals c.
Phase1Of(c) ==
    LET billet == c.billets[c.i]
        k == Phase1Lookup(billet, c.paymentsByReferenceID,
                          c.reconciledBilletsMap)
        status == IF k = 0 THEN NoStatus
                  ELSE Phase1Status(c.payments[k], billet)
    IN IF status # NoStatus
       THEN [c EXCEPT
                !.reconciledBillets = AppendMatch(@,
                    ReconciledBillet(billet, c.payments[k], status,
                        StrategyReferenceID,
                        AmountDiffOf(c.payments[k], billet))),
                !.reconciledBilletsMap = @ \cup {billet.ID},
                !.usedPaymentsMap = @ \cup {c.payments[k].ID},
                !.i = c.i + 1,
                !.pc = PcAfterPhase1(c, c.i + 1)]
       ELSE [c EXCEPT !.i = c.i + 1, !.pc = PcAfterPhase1(c, c.i + 1)]

\* One iteration of lines 147-231 on the locals c.
Phase2Of(c) ==
    LET payment == c.payments[c.j]
        best == IF payment.ID \in c.usedPaymentsMap THEN NoBest
                ELSE ScanBillets(c.billets, 1, payment,
                                 c.reconciledBilletsMap, NoBest)
    IN IF best.bestBillet # 0
       THEN [c EXCEPT
                !.reconciledBillets = AppendMatch(@,
                    ReconciledBillet(c.billets[best.bestBillet], payment,
                        Phase2Status(best.bestAmountDiff),
                        StrategyAccountAmountDate, best.bestAmountDiff)),
                !.reconciledBilletsMap =
                    @ \cup {c.billets[best.bestBillet].ID},
                !.usedPaymentsMap = @ \cup {payment.ID},
                !.j = c.j + 1,
                !.pc = PcAfterPhase2(c, c.j + 1)]
       ELSE [c EXCEPT !.j = c.j + 1, !.pc = PcAfterPhase2(c, c.j + 1)]

\* Lines 56-63 on the locals c.
CollectOf(c) ==
    [c EXCEPT
        !.nonReconciledBillets =
            SelectSeq(c.billets,
                      LAMBDA b : IsNonReconciled(b, c.reconciledBilletsMap)),
        !.err = Nil,
        !.pc = "done"]

\* The locals after the next step of the call.
StepOf(c) ==
    CASE c.pc = "lookup" -> LookupOf(c)
      [] c.pc = "phase1" -> Phase1Of(c)
      [] c.pc = "phase2" -> Phase2Of(c)
      [] c.pc = "aggregate" -> CollectOf(c)

Reverse(records) ==
    [k \in DOMAIN records |-> records[Len(records) + 1 - k]]

\* Another goroutine enters ReconcileBilletsWithPayments on the same
\* service, with the same slices or with slices of the same records in the
\* opposite order, wherever the first call stands.  enteredAt records where
\* that was.
SecondCall ==
    /\ second = NotStarted
    /\ \E args \in {<<billets, payments>>,
                    <<Reverse(billets), Reverse(payments)>>} :
          second' = [locals |-> EntryLocals(args[1], args[2],
                                    NewReconciledBilletsMap,
                                    NewUsedPaymentsMap),
                     pc |-> "running",
                     enteredAt |-> pc]
    /\ UNCHANGED <<billets, payments, pc, i, j, paymentsByReferenceID,
                   reconciledBilletsMap, usedPaymentsMap, reconciledBillets,
                   nonReconciledBillets, err, request, run, previous,
                   table, batch, call, now>>

\* The other goroutine takes its next step.
SecondStep ==
    /\ second # NotStarted
    /\ second.locals.pc # "done"
    /\ second' = [second EXCEPT !.locals = StepOf(second.locals)]
    /\ UNCHANGED <<billets, payments, pc, i, j, paymentsByReferenceID,
                   reconciledBilletsMap, usedPaymentsMap, reconciledBillets,
                   nonReconciledBillets, err, request, run, previous,
                   table, batch, call, now>>

\* Records of one account with and without a shared reference id, amounts
\* equal, at the tolerance and beyond it.
ConcurrentBillets ==
    {Billet("", "C123", 100, 1, r) : r \in {Nil, "REF001"}}

ConcurrentPayments ==
    {Payment("", "C123", v, 2, r) :
        v \in {100, 105, 108}, r \in {Nil, "REF001"}}

InitConcurrent ==
    /\ EngineOnly
    /\ InputsFrom(billets, payments, ConcurrentBillets, ConcurrentPayments)
    /\ request = Request(<< >>)
    /\ run = 1
    /\ previous = << >>
    /\ err = Pending
    /\ pc = "lookup"
    /\ i = 1
    /\ j = 1
    /\ paymentsByReferenceID = EmptyMap
    /\ reconciledBilletsMap = {}
    /\ usedPaymentsMap = {}
    /\ reconciledBillets = << >>
    /\ nonReconciledBillets = << >>

NextConcurrent ==
    \/ Next
    \/ SecondCall
    \/ SecondStep

SpecConcurrent == InitConcurrent /\ [][NextConcurrent]_vars

\* ------------------------------------------------------------------------
\* The billet use case over the billet repository
\* (internal/application/usecase/billet_usecase.go,
\*  internal/infrastructure/database/repository/billet_repository_impl.go)
\* ------------------------------------------------------------------------
\* The variables of a call of the engine.
engine == <<billets, payments, pc, i, j, paymentsByReferenceID,
            reconciledBilletsMap, usedPaymentsMap, reconciledBillets,
            nonReconciledBillets, err>>

\* No call of the engine: the program is at work elsewhere (at).
NoEngineCall(at) ==
    /\ billets = << >>
    /\ payments = << >>
    /\ pc = at
    /\ i = 1
    /\ j = 1
    /\ paymentsByReferenceID = EmptyMap
    /\ reconciledBilletsMap = {}
    /\ usedPaymentsMap = {}
    /\ reconciledBillets = << >>
    /\ nonReconciledBillets = << >>
    /\ err = Pending
    /\ request = Request(<< >>)
    /\ run = 1
    /\ previous = << >>
    /\ second = NotStarted

\* The dynamic types of the errors (pkg/errors/errors.go); FmtError is the
\* value of fmt.Errorf, which is none of the package's types.
ValidationError == "*errors.ValidationError"
NotFoundError == "*errors.NotFoundError"
ConflictError == "*errors.ConflictError"
DatabaseError == "*errors.DatabaseError"
FmtError == "fmt.Errorf"

\* A billet as the use case reads it: the fields of model.Billet and the
\* ReconciliationID of lines 147 and 173.  IssuanceDate 0 is the zero
\* time.Time.
StoredBillet(id, account, amount, date, reconciliationID) ==
    [ID |-> id, BankAccount |-> account, Amount |-> amount,
     IssuanceDate |-> date, ReferenceID |-> Nil,
     ReconciliationID |-> reconciliationID]

\* pkg/errors/errors.go, lines 99-103: err.(*NotFoundError).
IsNotFoundError(e) == e = NotFoundError

\* billet_usecase.go, lines 186-214.
validateBillet(billet, today) ==
    IF billet.ID = "" THEN ValidationError
    ELSE IF billet.BankAccount = "" THEN ValidationError
    ELSE IF billet.Amount <= 0 THEN ValidationError
    ELSE IF billet.IssuanceDate = 0 THEN ValidationError
    ELSE IF billet.IssuanceDate > today THEN ValidationError
    ELSE Nil

\* A *model.Billet is a sequence of one billet, or << >> for nil.
\* billet_repository_impl.go, lines 105-139: the row of the identifier, or
\* for sql.ErrNoRows nil and the error of
\* fmt.Errorf("boleto não encontrado: %s").
GetByID(rows, id) ==
    IF id \in DOMAIN rows
    THEN [billet |-> <<rows[id]>>, err |-> Nil]
    ELSE [billet |-> << >>, err |-> FmtError]

\* billet_repository_impl.go, lines 24-52: INSERT of one row.
Create(rows, billet) ==
    IF billet.ID \in DOMAIN rows
    THEN [rows |-> rows, err |-> FmtError]
    ELSE [rows |-> [id \in DOMAIN rows \cup {billet.ID} |->
                       IF id = billet.ID THEN billet ELSE rows[id]],
          err |-> Nil]

\* billet_repository_impl.go, lines 291-325: UPDATE ... SET bank_account,
\* amount, issuance_date, reference_id WHERE id.
Update(rows, billet) ==
    IF billet.ID \notin DOMAIN rows
    THEN [rows |-> rows, err |-> FmtError]
    ELSE [rows |-> [rows EXCEPT ![billet.ID] =
                       [@ EXCEPT !.BankAccount = billet.BankAccount,
                                 !.Amount = billet.Amount,
                                 !.IssuanceDate = billet.IssuanceDate,
                                 !.ReferenceID = billet.ReferenceID]],
          err |-> Nil]

\* billet_repository_impl.go, lines 328-349: DELETE ... WHERE id.
Delete(rows, id) ==
    IF id \notin DOMAIN rows
    THEN [rows |-> rows, err |-> FmtError]
    ELSE [rows |-> [k \in DOMAIN rows \ {id} |-> rows[k]], err |-> Nil]

\* What a use case method leaves: the rows of the table, the billet and
\* the error it returns, and the repository methods it called.
Outcome(rows, result, e, repository) ==
    [rows |-> rows, result |-> result, err |-> e, repository |-> repository]

\* The test of lines 147 and 173 left out.
NeverReconciled(billet) == FALSE

\* Lines 147 and 173: ReconciliationID != "".
AlreadyReconciled(billet) == billet.ReconciliationID # ""

\* billet_usecase.go, lines 31-55.
CreateBilletOutcome(rows, billet, today) ==
    LET existing == GetByID(rows, billet.ID)
        created == Create(rows, billet)
    IN IF validateBillet(billet, today) # Nil
       THEN Outcome(rows, << >>, validateBillet(billet, today), << >>)
       ELSE IF existing.err # Nil /\ ~ IsNotFoundError(existing.err)
       THEN Outcome(rows, << >>, DatabaseError, <<"GetByID">>)
       ELSE IF existing.billet # << >>
       THEN Outcome(rows, << >>, ConflictError, <<"GetByID">>)
       ELSE IF created.err # Nil
       THEN Outcome(created.rows, << >>, DatabaseError,
                    <<"GetByID", "Create">>)
       ELSE Outcome(created.rows, <<billet>>, Nil, <<"GetByID", "Create">>)

\* billet_usecase.go, lines 133-158.
UpdateBilletOutcome(rows, billet, today) ==
    LET existing == GetByID(rows, billet.ID)
        updated == Update(rows, billet)
    IN IF validateBillet(billet, today) # Nil
       THEN Outcome(rows, << >>, validateBillet(billet, today), << >>)
       ELSE IF existing.err # Nil
       THEN Outcome(rows, << >>, existing.err, <<"GetByID">>)
       ELSE IF AlreadyReconciled(existing.billet[1])
       THEN Outcome(rows, << >>, ValidationError, <<"GetByID">>)
       ELSE IF updated.err # Nil
       THEN Outcome(updated.rows, << >>, DatabaseError,
                    <<"GetByID", "Update">>)
       ELSE Outcome(updated.rows, <<billet>>, Nil, <<"GetByID", "Update">>)

\* billet_usecase.go, lines 160-183.
DeleteBilletOutcome(rows, billetID) ==
    LET existing == GetByID(rows, billetID)
        deleted == Delete(rows, billetID)
    IN IF billetID = ""
       THEN Outcome(rows, << >>, ValidationError, << >>)
       ELSE IF existing.err # Nil
       THEN Outcome(rows, << >>, existing.err, <<"GetByID">>)
       ELSE IF AlreadyReconciled(existing.billet[1])
       THEN Outcome(rows, << >>, ValidationError, <<"GetByID">>)
       ELSE IF deleted.err # Nil
       THEN Outcome(deleted.rows, << >>, DatabaseError,
                    <<"GetByID", "Delete">>)
       ELSE Outcome(deleted.rows, << >>, Nil, <<"GetByID", "Delete">>)

\* The method called, its argument, the table before it and its outcome.
Called(op, id, arg, before, out) ==
    [op |-> op, id |-> id, arg |-> arg, before |-> before,
     result |-> out.result, err |-> out.err, repository |-> out.repository]

\* The billets a client sends: valid ones of three identifiers and two
\* amounts, and one for each rule of validateBillet.
UseCaseBillets ==
    {StoredBillet(id, "C123", v, 1, "") :
        id \in {"B001", "B002", "B003"}, v \in {100, 200}}
    \cup {StoredBillet("", "C123", 100, 1, ""),
          StoredBillet("B001", "", 100, 1, ""),
          StoredBillet("B001", "C123", 0, 1, ""),
          StoredBillet("B001", "C123", 100, 0, ""),
          StoredBillet("B001", "C123", 100, 9, "")}

\* The tables the use case may find: each of two identifiers absent or
\* stored, not reconciled or reconciled.
StoredRows ==
    {StoredBillet(id, "C123", 100, 1, r) :
        id \in {"B001", "B002"}, r \in {"", "rec-1"}}

Tables ==
    UNION {{t \in [S -> StoredRows] : \A id \in S : t[id].ID = id} :
              S \in SUBSET {"B001", "B002"}}

CreateBillet ==
    /\ pc = "usecase"
    /\ \E billet \in UseCaseBillets :
          LET out == CreateBilletOutcome(table, billet, now)
          IN /\ table' = out.rows
             /\ call' = Called("CreateBillet", billet.ID, <<billet>>, table,
                            out)
    /\ UNCHANGED <<engine, request, run, previous, second, batch, now>>

UpdateBillet ==
    /\ pc = "usecase"
    /\ \E billet \in UseCaseBillets :
          LET out == UpdateBilletOutcome(table, billet, now)
          IN /\ table' = out.rows
             /\ call' = Called("UpdateBillet", billet.ID, <<billet>>, table,
                            out)
    /\ UNCHANGED <<engine, request, run, previous, second, batch, now>>

DeleteBillet ==
    /\ pc = "usecase"
    /\ \E billetID \in {"", "B001", "B002", "B003"} :
          LET out == DeleteBilletOutcome(table, billetID)
          IN /\ table' = out.rows
             /\ call' = Called("DeleteBillet", billetID, << >>, table, out)
    /\ UNCHANGED <<engine, request, run, previous, second, batch, now>>

InitUseCase ==
    /\ NoEngineCall("usecase")
    /\ table \in Tables
    /\ batch = << >>
    /\ call = Idle
    /\ now = 5

NextUseCase ==
    \/ CreateBillet
    \/ UpdateBillet
    \/ DeleteBillet

SpecUseCase == InitUseCase /\ [][NextUseCase]_vars

\* ------------------------------------------------------------------------
\* CreateMany of the three repositories
\* (billet_repository_impl.go lines 54-103, unnamed/part_003 lines 54-104,
\*  unnamed/part_002 lines 62-118)
\* ------------------------------------------------------------------------
MaxBatch == 2

Repositories == {"billet", "payment", "reconciliation"}

\* A record of a batch or a row of a table, by its primary key.
Record(id) == [ID |-> id]

\* The rows of a table after the rows of the inserted records are added.
WithRows(rows, inserted) ==
    [id \in DOMAIN rows \cup {inserted[k].ID : k \in DOMAIN inserted} |->
        IF id \in DOMAIN rows THEN rows[id] ELSE Record(id)]

\* A call of CreateMany: where it stands, the state of its transaction,
\* the records inserted in the transaction so far, the error it returns
\* and the table as it was at the call.
InCreateMany(repo, at, k, tx, inserted, e, before) ==
    [op |-> "CreateMany", repo |-> repo, pc |-> at, k |-> k, tx |-> tx,
     inserted |-> inserted, err |-> e, before |-> before]

\* The transaction committed on the way out of a failed call.
TxCommittedAfterError(repo) == "committed"

\* How the transaction ends when the call returns an error of
\* PrepareContext or ExecContext: tx.Rollback() at lines 68 and 95 of the
\* billet repository, the deferred tx.Rollback() of the other two
\* (part_003 lines 60-64, part_002 lines 74-78).
TxAfterError(repo) == "rolledback"

\* The table after the transaction has ended.
Persisted(rows, inserted, tx) ==
    IF tx = "committed" THEN WithRows(rows, inserted) ELSE rows

\* The entry of CreateMany up to BeginTx.  The reconciliation repository
\* returns nil for an empty batch (part_002 lines 63-65); BeginTx may fail.
BeginTx ==
    /\ pc = "repository"
    /\ call.op = "CreateMany"
    /\ call.pc = "begin"
    /\ \/ /\ call.repo = "reconciliation"
          /\ Len(batch) = 0
          /\ call' = [call EXCEPT !.pc = "returned", !.err = Nil]
       \/ /\ ~ (call.repo = "reconciliation" /\ Len(batch) = 0)
          /\ \E ok \in BOOLEAN :
                call' = IF ok
                        THEN [call EXCEPT !.pc = "prepare", !.tx = "open"]
                        ELSE [call EXCEPT !.pc = "returned",
                                          !.err = FmtError]
    /\ UNCHANGED <<engine, request, run, previous, second, table, batch,
                   now>>

\* tx.PrepareContext, which may fail.
PrepareContext ==
    /\ pc = "repository"
    /\ call.op = "CreateMany"
    /\ call.pc = "prepare"
    /\ \E ok \in BOOLEAN :
          IF ok
          THEN /\ call' = [call EXCEPT
                              !.pc = IF Len(batch) = 0 THEN "commit"
                                     ELSE "exec",
                              !.k = 1]
               /\ table' = table
          ELSE /\ call' = [call EXCEPT !.pc = "returned",
                                       !.tx = TxAfterError(call.repo),
                                       !.err = FmtError]
               /\ table' = Persisted(table, call.inserted,
                                     TxAfterError(call.repo))
    /\ UNCHANGED <<engine, request, run, previous, second, batch, now>>

\* One iteration of the loop: stmt.ExecContext of batch[k].  It fails when
\* the id is already a row of the table or of the transaction (id is the
\* PRIMARY KEY) and may fail for any other reason.
ExecContext ==
    /\ pc = "repository"
    /\ call.op = "CreateMany"
    /\ call.pc = "exec"
    /\ LET record == batch[call.k]
           duplicate ==
              \/ record.ID \in DOMAIN table
              \/ \E n \in DOMAIN call.inserted :
                    call.inserted[n].ID = record.ID
       IN \E ok \in BOOLEAN :
             IF ok /\ ~ duplicate
             THEN /\ call' = [call EXCEPT
                                 !.inserted = Append(@, record),
                                 !.k = @ + 1,
                                 !.pc = IF call.k + 1 > Len(batch)
                                        THEN "commit" ELSE "exec"]
                  /\ table' = table
             ELSE /\ call' = [call EXCEPT !.pc = "returned",
                                          !.tx = TxAfterError(call.repo),
                                          !.err = FmtError]
                  /\ table' = Persisted(table, call.inserted,
                                        TxAfterError(call.repo))
    /\ UNCHANGED <<engine, request, run, previous, second, batch, now>>

\* tx.Commit(): the rows become rows of the table, or the commit fails and
\* the transaction ends without them.
Commit ==
    /\ pc = "repository"
    /\ call.op = "CreateMany"
    /\ call.pc = "commit"
    /\ \E ok \in BOOLEAN :
          IF ok
          THEN /\ call' = [call EXCEPT !.pc = "returned",
                                       !.tx = "committed", !.err = Nil]
               /\ table' = Persisted(table, call.inserted, "committed")
          ELSE /\ call' = [call EXCEPT !.pc = "returned",
                                       !.tx = "failed", !.err = FmtError]
               /\ table' = Persisted(table, call.inserted, "failed")
    /\ UNCHANGED <<engine, request, run, previous, second, batch, now>>

\* A table that is empty or holds one row, a batch of up to MaxBatch
\* records whose ids may repeat or be stored already, any repository.
BatchIDs == {"X1", "X2", "X3"}

InitCreateMany ==
    /\ NoEngineCall("repository")
    /\ table \in {NoRows, WithRows(NoRows, <<Record("X1")>>)}
    /\ batch \in SeqsUpTo({Record(id) : id \in BatchIDs}, MaxBatch)
    /\ \E repo \in Repositories :
          call = InCreateMany(repo, "begin", 0, "none", << >>, Pending,
                              table)
    /\ now = 0

NextCreateMany ==
    \/ BeginTx
    \/ PrepareContext
    \/ ExecContext
    \/ Commit

SpecCreateMany == InitCreateMany /\ [][NextCreateMany]_vars

\* ------------------------------------------------------------------------
\* NewReconciliation and generateUUID
\* (internal/domain/model/reconciliation.go, lines 41-73)
\* ------------------------------------------------------------------------
\* The wall clock counts ticks of half a second, up to MaxNow.
MaxNow == 4

TicksPerSecond == 2

\* time.Time.Format("20060102150405"): the layout ends with the seconds,
\* so what is left of an instant is its whole second.
Format(t) == t \div TicksPerSecond

\* Lines 70-73: "rec-" + time.Now().Format("20060102150405").
generateUUID(t) == <<"rec-", Format(t)>>

\* Lines 41-66, for the fields that matter here: the ID, the billet and
\* the instant of creation.
Reconciliation(billetID, t) ==
    [ID |-> generateUUID(t), BilletID |-> billetID, CreatedAt |-> t]

\* A caller creates one more Reconciliation of the records it will persist
\* together.
NewReconciliation ==
    /\ pc = "model"
    /\ Len(batch) < MaxBatch
    /\ \E billetID \in {"B001", "B002"} :
          batch' = Append(batch, Reconciliation(billetID, now))
    /\ UNCHANGED <<engine, request, run, previous, second, table, call,
                   now>>

\* Time passes.
Tick ==
    /\ pc = "model"
    /\ now < MaxNow
    /\ now' = now + 1
    /\ UNCHANGED <<engine, request, run, previous, second, table, batch,
                   call>>

InitNewReconciliation ==
    /\ NoEngineCall("model")
    /\ table = NoRows
    /\ batch = << >>
    /\ call = Idle
    /\ now = 0

NextNewReconciliation ==
    \/ NewReconciliation
    \/ Tick

SpecNewReconciliation ==
    InitNewReconciliation /\ [][NextNewReconciliation]_vars

\* ------------------------------------------------------------------------
\* Properties of a run
\* ------------------------------------------------------------------------
Done == pc = "done"

Range(f) == {f[k] : k \in DOMAIN f}

\* The input record an identifier of a MatchResult names (the model's
\* identifiers are distinct within each slice).
BilletOf(id) == CHOOSE b \in Range(billets) : b.ID = id
PaymentOf(id) == CHOOSE p \in Range(payments) : p.ID = id

HasReferenceID(record) == record.ReferenceID # Nil /\ record.ReferenceID # ""

\* C1: no payment identifier is the payment of more than one MatchResult,
\* whatever the input, also when several billets carry the reference id of
\* one payment.
C1_PaymentInAtMostOneResult ==
    \A a, b \in DOMAIN reconciledBillets :
        a # b =>
            reconciledBillets[a].TransactionID #
                reconciledBillets[b].TransactionID

\* How often a billet identifier occurs among the MatchResults and among
\* the billets reported as not reconciled.
TimesReconciled(id) ==
    Cardinality({k \in DOMAIN reconciledBillets :
                    reconciledBillets[k].BilletID = id})

TimesNonReconciled(id) ==
    Cardinality({k \in DOMAIN nonReconciledBillets :
                    nonReconciledBillets[k].ID = id})

\* C2: when the run has returned, every input billet is in exactly one
\* place: in exactly one MatchResult or exactly once in the sequence of
\* billets not reconciled, never in both and never in neither.
C2_EveryBilletInExactlyOnePlace ==
    Done =>
        \A k \in DOMAIN billets :
            TimesReconciled(billets[k].ID)
                + TimesNonReconciled(billets[k].ID) = 1

\* A finished run with a billet that was matched and one that was not.
C2_Witness ==
    /\ Done
    /\ Len(reconciledBillets) > 0
    /\ Len(nonReconciledBillets) > 0
    /\ Len(billets) = Len(reconciledBillets) + Len(nonReconciledBillets)

\* What the README expects of the example data, without the reference id
\* carried by the result.
Match(billetID, transactionID, status, strategy, amountDiff) ==
    [BilletID |-> billetID, TransactionID |-> transactionID,
     ConciliationStatus |-> status, ConciliationStrategy |-> strategy,
     AmountDiff |-> amountDiff]

MatchOf(r) ==
    Match(r.BilletID, r.TransactionID, r.ConciliationStatus,
          r.ConciliationStrategy, r.AmountDiff)

ReferenceMatches ==
    { Match("B001", "T100", StatusSuccessful, StrategyReferenceID, 0),
      Match("B002", "T101", StatusDifferentValue,
            StrategyAccountAmountDate, 5),
      Match("B003", "T102", StatusSuccessful, StrategyAccountAmountDate, 0),
      Match("B004", "T103", StatusSuccessful, StrategyReferenceID, 0) }

IsReferenceRun ==
    billets = ReferenceBillets /\ payments = ReferencePayments

\* C3: on the example data (B001..B004, T100..T103) the run yields exactly
\* the four expected matches and no billet is left not reconciled.
C3_ReferenceDataSet ==
    (IsReferenceRun /\ Done) =>
        /\ Len(reconciledBillets) = 4
        /\ {MatchOf(reconciledBillets[k]) : k \in DOMAIN reconciledBillets}
              = ReferenceMatches
        /\ nonReconciledBillets = << >>

\* The run on the example data has returned.
C3_Witness == IsReferenceRun /\ Done /\ Len(reconciledBillets) = 4

\* A MatchResult of the report pairs billet b with payment p, with the
\* given status and strategy.
Paired(b, p, status, strategy) ==
    \E k \in DOMAIN reconciledBillets :
        /\ reconciledBillets[k].BilletID = b.ID
        /\ reconciledBillets[k].TransactionID = p.ID
        /\ reconciledBillets[k].ConciliationStatus = status
        /\ reconciledBillets[k].ConciliationStrategy = strategy

SameReferenceAndAmount(b, p) ==
    /\ HasReferenceID(b)
    /\ b.ReferenceID = p.ReferenceID
    /\ b.Amount = p.Amount

\* C4 as claimed: whenever a billet and a payment of the input share a
\* non-empty reference id and have equal amounts, the report pairs them
\* with status conciliado_com_sucesso and strategy reference_id.
C4_SameReferenceSameAmountPaired ==
    Done =>
        \A b \in Range(billets), p \in Range(payments) :
            SameReferenceAndAmount(b, p) =>
                Paired(b, p, StatusSuccessful, StrategyReferenceID)

\* C4 as amended: the same, for a payment that is the only payment of the
\* input carrying that reference id.
C4_OnlyPaymentOfReferencePaired ==
    Done =>
        \A b \in Range(billets), p \in Range(payments) :
            ( /\ SameReferenceAndAmount(b, p)
              /\ \A q \in Range(payments) :
                    q.ReferenceID = p.ReferenceID => q = p )
            => Paired(b, p, StatusSuccessful, StrategyReferenceID)

\* A finished run in which such a pair exists, next to another payment with
\* a reference id of its own.
C4_Witness ==
    /\ Done
    /\ \E b \in Range(billets), p, q \in Range(payments) :
          /\ SameReferenceAndAmount(b, p)
          /\ HasReferenceID(q)
          /\ q.ReferenceID # p.ReferenceID
          /\ Paired(b, p, StatusSuccessful, StrategyReferenceID)

\* The pair a phase-1 iteration is about: the billet of the iteration and
\* the payment registered under its reference id.
Phase1Pair(b, p) ==
    /\ pc = "phase1"
    /\ i <= Len(billets)
    /\ b = billets[i]
    /\ b.ID \notin reconciledBilletsMap
    /\ HasReferenceID(b)
    /\ b.ReferenceID \in DOMAIN paymentsByReferenceID
    /\ p = payments[paymentsByReferenceID[b.ReferenceID]]

\* C5: in phase 1, a pair whose amount difference is exactly the tolerance
\* percentage of the billet amount is matched with status valor_diferente;
\* a pair whose difference exceeds it is not matched: the iteration
\* appends no MatchResult and marks neither record, so the billet stays
\* unconsumed and the payment stays as it was for phase 2.
C5_ToleranceBoundaryInPhase1 ==
    [][ \A b \in Range(billets), p \in Range(payments) :
          Phase1Pair(b, p) =>
            /\ ( /\ b.Amount > 0
                 /\ Abs(p.Amount - b.Amount) * 100
                       = TolerancePercentage * b.Amount )
               => /\ reconciledBillets' = Append(reconciledBillets,
                        [BilletID |-> b.ID,
                         BankAccount |-> b.BankAccount,
                         TransactionID |-> p.ID,
                         ConciliationStatus |-> StatusDifferentValue,
                         ConciliationStrategy |-> StrategyReferenceID,
                         ReferenceID |-> b.ReferenceID,
                         AmountDiff |-> Abs(p.Amount - b.Amount)])
                  /\ b.ID \in reconciledBilletsMap'
                  /\ p.ID \in usedPaymentsMap'
            /\ ( Abs(p.Amount - b.Amount) * 100
                    > TolerancePercentage * b.Amount )
               => /\ reconciledBillets' = reconciledBillets
                  /\ reconciledBilletsMap' = reconciledBilletsMap
                  /\ usedPaymentsMap' = usedPaymentsMap
                  /\ b.ID \notin reconciledBilletsMap'
      ]_vars

\* A finished run with a pair at the boundary matched by reference id and
\* a pair beyond the boundary that phase 1 looked at and left alone.
C5_Witness ==
    /\ Done
    /\ \E b, c \in Range(billets), p, q \in Range(payments) :
          /\ b.Amount > 0
          /\ Abs(p.Amount - b.Amount) * 100 = TolerancePercentage * b.Amount
          /\ Paired(b, p, StatusDifferentValue, StrategyReferenceID)
          /\ HasReferenceID(c)
          /\ c.ReferenceID \in DOMAIN paymentsByReferenceID
          /\ q = payments[paymentsByReferenceID[c.ReferenceID]]
          /\ Abs(q.Amount - c.Amount) * 100 > TolerancePercentage * c.Amount
          /\ c.ID \notin reconciledBilletsMap
          /\ q.ID \notin usedPaymentsMap

\* C6: in every MatchResult of either phase the status is decided by the
\* amount difference, the billet amount and the tolerance alone:
\* conciliado_com_sucesso exactly when the difference is 0, valor_diferente
\* exactly when it is positive and at most the tolerance percentage of the
\* billet amount; no result is beyond the tolerance or nao_conciliado.
C6_StatusFromDifferenceAndTolerance ==
    \A k \in DOMAIN reconciledBillets :
        LET r == reconciledBillets[k]
            b == BilletOf(r.BilletID)
            p == PaymentOf(r.TransactionID)
            diff == Abs(p.Amount - b.Amount)
            within == diff * 100 <= TolerancePercentage * b.Amount
        IN /\ (r.ConciliationStatus = StatusSuccessful) <=> (diff = 0)
           /\ (r.ConciliationStatus = StatusDifferentValue)
                 <=> (diff > 0 /\ within)
           /\ diff = 0 \/ within
           /\ r.ConciliationStatus # StatusNotReconciled

\* A report with an exact and an inexact match, one of each phase.
C6_Witness ==
    \E a, b \in DOMAIN reconciledBillets :
        /\ reconciledBillets[a].ConciliationStatus = StatusSuccessful
        /\ reconciledBillets[a].ConciliationStrategy = StrategyReferenceID
        /\ reconciledBillets[b].ConciliationStatus = StatusDifferentValue
        /\ reconciledBillets[b].ConciliationStrategy
              = StrategyAccountAmountDate

\* C7: the AmountDiff of every MatchResult is the absolute difference of
\* the amounts of the billet and the payment the result names, never
\* negative.
C7_AmountDiffIsAbsoluteDifference ==
    \A k \in DOMAIN reconciledBillets :
        LET r == reconciledBillets[k]
            b == BilletOf(r.BilletID)
            p == PaymentOf(r.TransactionID)
        IN /\ r.AmountDiff >= 0
           /\ \/ r.AmountDiff = p.Amount - b.Amount
              \/ r.AmountDiff = b.Amount - p.Amount

\* A report with a payment below and a payment above its billet's amount.
C7_Witness ==
    \E a, b \in DOMAIN reconciledBillets :
        /\ PaymentOf(reconciledBillets[a].TransactionID).Amount
              < BilletOf(reconciledBillets[a].BilletID).Amount
        /\ PaymentOf(reconciledBillets[b].TransactionID).Amount
              > BilletOf(reconciledBillets[b].BilletID).Amount

\* C8: in phase 1, of several payments carrying the same non-empty
\* reference id only the first in payment input order can be matched by
\* reference_id: no reference_id result names a payment that comes after
\* another payment with the same reference id.
C8_OnlyFirstPaymentOfReference ==
    \A k \in DOMAIN reconciledBillets :
        reconciledBillets[k].ConciliationStrategy = StrategyReferenceID =>
            ~ \E m, n \in DOMAIN payments :
                /\ m < n
                /\ payments[n].ID = reconciledBillets[k].TransactionID
                /\ payments[m].ReferenceID = payments[n].ReferenceID

\* The keys of the phase-2 order, taken from the input records.
DateDistance(b, p) == Abs(p.PaymentDate - b.IssuanceDate)
AmountDistance(b, p) == Abs(p.Amount - b.Amount)

\* Billet b is a candidate for payment p in the current state: not yet
\* consumed, of the payment's account, and not beyond the tolerance.
Eligible(b, p) ==
    /\ b.ID \notin reconciledBilletsMap
    /\ b.BankAccount = p.BankAccount
    /\ ~ (AmountDistance(b, p) * 100 > TolerancePercentage * b.Amount)

\* The phase-2 iteration of this step is about payment p, which is not yet
\* consumed.
Phase2Considers(p) ==
    /\ pc = "phase2"
    /\ j <= Len(payments)
    /\ p = payments[j]
    /\ p.ID \notin usedPaymentsMap

\* This step appends a conta_valor_data result that pairs b with p.
Phase2Chooses(b, p) ==
    /\ Phase2Considers(p)
    /\ Len(reconciledBillets') = Len(reconciledBillets) + 1
    /\ LET r == reconciledBillets'[Len(reconciledBillets')]
       IN /\ r.BilletID = b.ID
          /\ r.TransactionID = p.ID
          /\ r.ConciliationStrategy = StrategyAccountAmountDate

\* Billets a and b tie on date distance and on amount difference to p.
TiedOnDateAndAmount(a, b, p) ==
    /\ DateDistance(a, p) = DateDistance(b, p)
    /\ AmountDistance(a, p) = AmountDistance(b, p)

\* C9: in phase 2, when candidates of a payment tie on date distance and
\* amount difference, a billet is chosen and it is never the one of a tied
\* pair with the later issuance date, wherever the two stand in the input.
C9_EarlierIssuanceDateWinsTie ==
    [][ \A p \in Range(payments) : \A a, b \in Range(billets) :
          ( /\ Phase2Considers(p)
            /\ Eligible(a, p)
            /\ Eligible(b, p)
            /\ TiedOnDateAndAmount(a, b, p)
            /\ a.IssuanceDate < b.IssuanceDate )
          => /\ \E c \in Range(billets) : Phase2Chooses(c, p)
             /\ ~ Phase2Chooses(b, p)
      ]_vars

\* Result k was produced while billet e was still unconsumed.
UnconsumedBefore(e, k) ==
    \A h \in 1..(k - 1) : reconciledBillets[h].BilletID # e.ID

\* A finished run in which phase 2 chose the billet with the earlier
\* issuance date although the tied billet with the later date comes first
\* in the input.
C9_Witness ==
    /\ Done
    /\ \E k \in DOMAIN reconciledBillets, m, n \in DOMAIN billets :
          LET r == reconciledBillets[k]
              p == PaymentOf(r.TransactionID)
          IN /\ m < n
             /\ r.ConciliationStrategy = StrategyAccountAmountDate
             /\ r.BilletID = billets[n].ID
             /\ billets[m].BankAccount = p.BankAccount
             /\ TiedOnDateAndAmount(billets[m], billets[n], p)
             /\ billets[n].IssuanceDate < billets[m].IssuanceDate
             /\ UnconsumedBefore(billets[m], k)

\* Billet a comes strictly before billet b in the order (date distance,
\* amount difference, issuance date) for payment p.
KeyLess(a, b, p) ==
    \/ DateDistance(a, p) < DateDistance(b, p)
    \/ /\ DateDistance(a, p) = DateDistance(b, p)
       /\ AmountDistance(a, p) < AmountDistance(b, p)
    \/ /\ DateDistance(a, p) = DateDistance(b, p)
       /\ AmountDistance(a, p) = AmountDistance(b, p)
       /\ a.IssuanceDate < b.IssuanceDate

\* C10: in phase 2 the billet chosen for a payment is itself a candidate
\* and is minimal among the candidates of that moment under the order
\* (date distance, amount difference, issuance date): no candidate has a
\* strictly smaller key.
C10_ChosenBilletIsMinimal ==
    [][ \A p \in Range(payments) : \A b \in Range(billets) :
          Phase2Chooses(b, p) =>
             /\ Eligible(b, p)
             /\ \A e \in Range(billets) :
                   Eligible(e, p) => ~ KeyLess(e, b, p)
      ]_vars

\* A finished run in which phase 2 chose a billet with a closer date over
\* a candidate, earlier in the input, with a smaller amount difference.
C10_Witness ==
    /\ Done
    /\ \E k \in DOMAIN reconciledBillets, m, n \in DOMAIN billets :
          LET r == reconciledBillets[k]
              p == PaymentOf(r.TransactionID)
          IN /\ m < n
             /\ r.ConciliationStrategy = StrategyAccountAmountDate
             /\ r.BilletID = billets[n].ID
             /\ billets[m].BankAccount = p.BankAccount
             /\ DateDistance(billets[n], p) < DateDistance(billets[m], p)
             /\ AmountDistance(billets[m], p) < AmountDistance(billets[n], p)
             /\ UnconsumedBefore(billets[m], k)

\* C11: in phase 2, of two candidates that tie on date distance, amount
\* difference and issuance date, the one that comes later in the billet
\* input is never chosen: the one scanned first stays the best.
C11_FirstSeenWinsFullTie ==
    [][ \A p \in Range(payments) : \A m, n \in DOMAIN billets :
          ( /\ m < n
            /\ Phase2Considers(p)
            /\ Eligible(billets[m], p)
            /\ Eligible(billets[n], p)
            /\ TiedOnDateAndAmount(billets[m], billets[n], p)
            /\ billets[m].IssuanceDate = billets[n].IssuanceDate )
          => ~ Phase2Chooses(billets[n], p)
      ]_vars

\* A finished run in which phase 2 chose the first of two fully tied
\* candidates.
C11_Witness ==
    /\ Done
    /\ \E k \in DOMAIN reconciledBillets, m, n \in DOMAIN billets :
          LET r == reconciledBillets[k]
              p == PaymentOf(r.TransactionID)
          IN /\ m < n
             /\ r.ConciliationStrategy = StrategyAccountAmountDate
             /\ r.BilletID = billets[m].ID
             /\ billets[n].BankAccount = p.BankAccount
             /\ TiedOnDateAndAmount(billets[m], billets[n], p)
             /\ billets[m].IssuanceDate = billets[n].IssuanceDate
             /\ UnconsumedBefore(billets[n], k)

\* The position of a record in its input slice.
BilletPosition(id) == CHOOSE k \in DOMAIN billets : billets[k].ID = id
PaymentPosition(id) == CHOOSE k \in DOMAIN payments : payments[k].ID = id

\* C13: the final result sequence is the reference_id results, in billet
\* input order, followed by the conta_valor_data results, in payment input
\* order; the unmatched sequence is the billets in no result, in billet
\* input order.
C13_ReportOrder ==
    Done =>
        /\ \E n \in 0..Len(reconciledBillets) :
              /\ \A k \in 1..n :
                    reconciledBillets[k].ConciliationStrategy
                        = StrategyReferenceID
              /\ \A k \in (n + 1)..Len(reconciledBillets) :
                    reconciledBillets[k].ConciliationStrategy
                        = StrategyAccountAmountDate
              /\ \A a, b \in 1..n :
                    a < b =>
                        BilletPosition(reconciledBillets[a].BilletID)
                            < BilletPosition(reconciledBillets[b].BilletID)
              /\ \A a, b \in (n + 1)..Len(reconciledBillets) :
                    a < b =>
                        PaymentPosition(reconciledBillets[a].TransactionID)
                          < PaymentPosition(reconciledBillets[b].TransactionID)
        /\ \A a, b \in DOMAIN nonReconciledBillets :
              a < b =>
                  BilletPosition(nonReconciledBillets[a].ID)
                      < BilletPosition(nonReconciledBillets[b].ID)
        /\ {nonReconciledBillets[k] : k \in DOMAIN nonReconciledBillets}
              = {b \in Range(billets) : TimesReconciled(b.ID) = 0}

\* A finished run whose first result is a reference_id match of the second
\* billet and whose second result is a conta_valor_data match of the first
\* billet.
C13_Witness ==
    /\ Done
    /\ Len(reconciledBillets) = 2
    /\ reconciledBillets[1].ConciliationStrategy = StrategyReferenceID
    /\ reconciledBillets[2].ConciliationStrategy = StrategyAccountAmountDate
    /\ BilletPosition(reconciledBillets[2].BilletID)
          < BilletPosition(reconciledBillets[1].BilletID)

\* C14 as claimed: in every MatchResult, of either strategy, the billet and
\* the payment have the same bank account.
C14_NoMatchAcrossAccounts ==
    \A k \in DOMAIN reconciledBillets :
        BilletOf(reconciledBillets[k].BilletID).BankAccount
            = PaymentOf(reconciledBillets[k].TransactionID).BankAccount

\* C14 as amended: a MatchResult carries the account of its billet, and it
\* pairs a billet and a payment of different accounts only as a
\* reference_id match of two records with the same non-empty reference id.
C14_OnlyReferenceMatchesCrossAccounts ==
    \A k \in DOMAIN reconciledBillets :
        LET r == reconciledBillets[k]
            b == BilletOf(r.BilletID)
            p == PaymentOf(r.TransactionID)
        IN /\ r.BankAccount = b.BankAccount
           /\ b.BankAccount # p.BankAccount =>
                 /\ r.ConciliationStrategy = StrategyReferenceID
                 /\ HasReferenceID(b)
                 /\ b.ReferenceID = p.ReferenceID

\* A report with a reference_id match across two accounts.
C14_Witness ==
    \E k \in DOMAIN reconciledBillets :
        /\ reconciledBillets[k].ConciliationStrategy = StrategyReferenceID
        /\ BilletOf(reconciledBillets[k].BilletID).BankAccount
              # PaymentOf(reconciledBillets[k].TransactionID).BankAccount

\* C15: phase 2 pairs a payment only with a billet of the payment's bank
\* account, also when an unconsumed billet of another account is closer.
C15_Phase2WithinOneAccount ==
    [][ \A p \in Range(payments) : \A b \in Range(billets) :
          Phase2Chooses(b, p) => b.BankAccount = p.BankAccount
      ]_vars

\* A finished run in which phase 2 chose a billet of the payment's account
\* although an unconsumed billet of another account, within the tolerance,
\* had a smaller key.
C15_Witness ==
    /\ Done
    /\ \E k \in DOMAIN reconciledBillets, e \in Range(billets) :
          LET r == reconciledBillets[k]
              p == PaymentOf(r.TransactionID)
              b == BilletOf(r.BilletID)
          IN /\ r.ConciliationStrategy = StrategyAccountAmountDate
             /\ e.BankAccount # p.BankAccount
             /\ AmountDistance(e, p) * 100 <= TolerancePercentage * e.Amount
             /\ KeyLess(e, b, p)
             /\ UnconsumedBefore(e, k)

\* C16: no billet and no payment of a reference_id result is in a
\* conta_valor_data result.
C16_Phase2OnlyOverWhatPhase1Left ==
    \A a, b \in DOMAIN reconciledBillets :
        ( /\ reconciledBillets[a].ConciliationStrategy = StrategyReferenceID
          /\ reconciledBillets[b].ConciliationStrategy
                = StrategyAccountAmountDate )
        => /\ reconciledBillets[a].BilletID # reconciledBillets[b].BilletID
           /\ reconciledBillets[a].TransactionID
                 # reconciledBillets[b].TransactionID

\* A finished run with a reference_id match whose billet would have been a
\* candidate of a payment that phase 2 paired with another billet.
C16_Witness ==
    /\ Done
    /\ \E a, b \in DOMAIN reconciledBillets :
          LET first == BilletOf(reconciledBillets[a].BilletID)
              p == PaymentOf(reconciledBillets[b].TransactionID)
          IN /\ reconciledBillets[a].ConciliationStrategy
                   = StrategyReferenceID
             /\ reconciledBillets[b].ConciliationStrategy
                   = StrategyAccountAmountDate
             /\ first.BankAccount = p.BankAccount
             /\ AmountDistance(first, p) * 100
                   <= TolerancePercentage * first.Amount

\* C17: a billet of amount 0 is handled by the ordinary comparisons (the
\* division yields +Inf or NaN, not a fault).  In phase 1 its
\* pair is matched as conciliado_com_sucesso when the payment amount is 0
\* too and left alone otherwise; in phase 2 it is chosen only for a payment
\* of amount 0, with status conciliado_com_sucesso, and a payment of amount
\* 0 that has such a candidate is matched.
C17_ZeroAmountBillet ==
    [][ /\ \A b \in Range(billets), p \in Range(payments) :
              (Phase1Pair(b, p) /\ b.Amount = 0) =>
                 IF p.Amount = 0
                 THEN /\ Len(reconciledBillets') = Len(reconciledBillets) + 1
                      /\ MatchOf(reconciledBillets'[Len(reconciledBillets')])
                            = Match(b.ID, p.ID, StatusSuccessful,
                                    StrategyReferenceID, 0)
                 ELSE /\ reconciledBillets' = reconciledBillets
                      /\ reconciledBilletsMap' = reconciledBilletsMap
                      /\ usedPaymentsMap' = usedPaymentsMap
        /\ \A b \in Range(billets), p \in Range(payments) :
              (Phase2Chooses(b, p) /\ b.Amount = 0) =>
                 /\ p.Amount = 0
                 /\ MatchOf(reconciledBillets'[Len(reconciledBillets')])
                       = Match(b.ID, p.ID, StatusSuccessful,
                               StrategyAccountAmountDate, 0)
        /\ \A b \in Range(billets), p \in Range(payments) :
              ( /\ Phase2Considers(p)
                /\ b.ID \notin reconciledBilletsMap
                /\ b.BankAccount = p.BankAccount
                /\ b.Amount = 0
                /\ p.Amount = 0 )
              => \E c \in Range(billets) : Phase2Chooses(c, p)
      ]_vars

\* A finished run in which a billet of amount 0 was matched in phase 2 with
\* a payment of amount 0 and another billet of amount 0 stayed unmatched
\* next to an unused payment of its account with another amount.
C17_Witness ==
    /\ Done
    /\ \E k \in DOMAIN reconciledBillets :
          /\ BilletOf(reconciledBillets[k].BilletID).Amount = 0
          /\ reconciledBillets[k].ConciliationStrategy
                = StrategyAccountAmountDate
    /\ \E b \in Range(billets), p \in Range(payments) :
          /\ b.Amount = 0
          /\ b.ID \notin reconciledBilletsMap
          /\ p.Amount # 0
          /\ p.BankAccount = b.BankAccount
          /\ p.ID \notin usedPaymentsMap

\* C12: a second call with the same slices returns the report of the first:
\* the same MatchResults in the same order and the same unmatched billets
\* in the same order.
C12_SameInputsSameReport ==
    (Done /\ run > 1) => previous = <<Report>>

\* A second call has returned a report with a match and an unmatched
\* billet.
C12_Witness ==
    /\ Done
    /\ run = 2
    /\ Len(reconciledBillets) > 0
    /\ Len(nonReconciledBillets) > 0

\* The request carries a negative tolerance.
NegativeTolerance ==
    request.Tolerance # << >> /\ request.Tolerance[1] < 0

C19_SuppliedToleranceDecides ==
    request.Tolerance # << >> =>
        /\ \A k \in DOMAIN reconciledBillets :
              LET r == reconciledBillets[k]
                  b == BilletOf(r.BilletID)
                  p == PaymentOf(r.TransactionID)
              IN AmountDistance(b, p) * 100 <= request.Tolerance[1] * b.Amount
        /\ Done =>
              \A b \in Range(billets), p \in Range(payments) :
                  ( /\ HasReferenceID(b)
                    /\ b.ReferenceID = p.ReferenceID
                    /\ \A q \in Range(payments) :
                          q.ReferenceID = p.ReferenceID => q = p
                    /\ \A c \in Range(billets) :
                          c.ReferenceID = b.ReferenceID => c = b
                    /\ AmountDistance(b, p) * 100
                          <= request.Tolerance[1] * b.Amount )
                  => \E k \in DOMAIN reconciledBillets :
                        /\ reconciledBillets[k].BilletID = b.ID
                        /\ reconciledBillets[k].TransactionID = p.ID

\* C20: the call always goes on until it returns, and it returns a nil
\* error and a report in which every billet of no MatchResult is in the
\* unmatched sequence.
C20_ReturnsReportAndNilError ==
    /\ err \in {Pending, Nil}
    /\ (err # Pending) <=> Done
    /\ ~ Done => ENABLED Next
    /\ Done =>
          \A b \in Range(billets) :
              TimesReconciled(b.ID) = 0 => TimesNonReconciled(b.ID) = 1

\* A call over billets and payments of which nothing matches has returned.
C20_Witness ==
    /\ Done
    /\ err = Nil
    /\ Len(billets) > 0
    /\ Len(payments) > 0
    /\ reconciledBillets = << >>
    /\ Len(nonReconciledBillets) = Len(billets)

\* C22: no step of a run changes the input slices: the billets and the
\* payments keep their records, their fields, their order and their length
\* through both phases and the final collection.
C22_InputsUnchanged ==
    [][billets' = billets /\ payments' = payments]_vars

\* A finished run in which both phases matched.
C22_Witness ==
    /\ Done
    /\ \E k \in DOMAIN reconciledBillets :
          reconciledBillets[k].ConciliationStrategy = StrategyReferenceID
    /\ \E k \in DOMAIN reconciledBillets :
          reconciledBillets[k].ConciliationStrategy
              = StrategyAccountAmountDate

\* C23: a result carries a reference id only when the match was made by
\* it: a reference_id result carries the id the billet and the payment
\* share, a conta_valor_data result carries none.
C23_ReferenceIdOnlyWhenUsed ==
    \A k \in DOMAIN reconciledBillets :
        LET r == reconciledBillets[k]
        IN IF r.ConciliationStrategy = StrategyReferenceID
           THEN /\ r.ReferenceID = BilletOf(r.BilletID).ReferenceID
                /\ r.ReferenceID = PaymentOf(r.TransactionID).ReferenceID
           ELSE r.ReferenceID = Nil

\* C24: phase 1 considers a reference id only when it is present and not
\* the empty string: the lookup holds no entry for the empty string, and no
\* reference_id result pairs a billet or a payment without a reference id.
C24_OnlyNonEmptyReferenceIds ==
    /\ "" \notin DOMAIN paymentsByReferenceID
    /\ Nil \notin DOMAIN paymentsByReferenceID
    /\ \A k \in DOMAIN reconciledBillets :
          LET r == reconciledBillets[k]
          IN r.ConciliationStrategy = StrategyReferenceID =>
                /\ HasReferenceID(BilletOf(r.BilletID))
                /\ HasReferenceID(PaymentOf(r.TransactionID))

\* A finished run over a billet and a payment that both carry the empty
\* string, of equal amounts, with no reference_id result.
C24_Witness ==
    /\ Done
    /\ \E b \in Range(billets), p \in Range(payments) :
          /\ b.ReferenceID = ""
          /\ p.ReferenceID = ""
          /\ b.Amount = p.Amount
    /\ \A k \in DOMAIN reconciledBillets :
          reconciledBillets[k].ConciliationStrategy # StrategyReferenceID

\* C25: when the run has returned, no payment left unconsumed and billet
\* left unmatched share the bank account with amounts within the tolerance.
C25_Phase2Maximal ==
    Done =>
        \A p \in Range(payments), b \in Range(billets) :
            p.ID \notin usedPaymentsMap => ~ Eligible(b, p)

\* A finished run that left a payment unconsumed and a billet unmatched,
\* after phase 2 matched another billet of that account.
C25_Witness ==
    /\ Done
    /\ \E p \in Range(payments) : p.ID \notin usedPaymentsMap
    /\ Len(nonReconciledBillets) > 0
    /\ \E k \in DOMAIN reconciledBillets :
          reconciledBillets[k].ConciliationStrategy
              = StrategyAccountAmountDate

\* The billets in another order.
Orders(n) ==
    {f \in [1..n -> 1..n] : \A a, b \in 1..n : f[a] = f[b] => a = b}

Permuted(records, f) == [k \in DOMAIN records |-> records[f[k]]]

\* The identifier of the billet the scan of bs chooses for payment p in
\* the current state, Nil when it chooses none.
ChosenID(bs, p) ==
    LET best == ScanBillets(bs, 1, p, reconciledBilletsMap, NoBest)
    IN IF best.bestBillet = 0 THEN Nil ELSE bs[best.bestBillet].ID

\* Two candidates of payment p tie on all three keys.
FullTie(p) ==
    \E m, n \in DOMAIN billets :
        /\ m # n
        /\ Eligible(billets[m], p)
        /\ Eligible(billets[n], p)
        /\ TiedOnDateAndAmount(billets[m], billets[n], p)
        /\ billets[m].IssuanceDate = billets[n].IssuanceDate

\* C26: for the payment a phase-2 iteration is about, the scan of the
\* billets in any other order chooses the same billet, unless two
\* candidates tie on date distance, amount difference and issuance date.
C26_ChoiceIndependentOfBilletOrder ==
    \A p \in Range(payments) :
        (Phase2Considers(p) /\ ~ FullTie(p)) =>
            \A f \in Orders(Len(billets)) :
                ChosenID(Permuted(billets, f), p) = ChosenID(billets, p)

\* A phase-2 iteration with two candidates that do not tie, of which the
\* second in the input is the one chosen.
C26_Witness ==
    \E p \in Range(payments) :
        /\ Phase2Considers(p)
        /\ Len(billets) > 1
        /\ Eligible(billets[1], p)
        /\ Eligible(billets[2], p)
        /\ ~ FullTie(p)
        /\ ChosenID(billets, p) = billets[2].ID

\* The locals of a call on bs and ps that runs from entry to return with
\* nothing else going on.
RECURSIVE RunFrom(_)
RunFrom(c) == IF c.pc = "done" THEN c ELSE RunFrom(StepOf(c))

RunAlone(bs, ps) == RunFrom(EntryLocals(bs, ps, {}, {}))

ReportOf(c) ==
    [ReconciledBillets |-> c.reconciledBillets,
     NonReconciledBillets |-> c.nonReconciledBillets]

\* C21: of two calls on the same service whose steps interleave in any
\* way, each returns the report of a call on its slices that runs alone.
C21_InterleavedCallsAsAlone ==
    /\ Done => Report = ReportOf(RunAlone(billets, payments))
    /\ (second # NotStarted /\ second.locals.pc = "done") =>
          ReportOf(second.locals)
              = ReportOf(RunAlone(second.locals.billets,
                                  second.locals.payments))

\* The second call entered while the first was in phase 1 and has returned
\* a match while the first, which has matched too, is still in phase 2.
C21_Witness ==
    /\ second # NotStarted
    /\ second.enteredAt = "phase1"
    /\ second.locals.pc = "done"
    /\ pc = "phase2"
    /\ Len(second.locals.reconciledBillets) > 0
    /\ Len(reconciledBillets) > 0

\* The last use case call was about a stored billet that is reconciled.
OnReconciledBillet ==
    /\ call.op \in {"UpdateBillet", "DeleteBillet"}
    /\ call.id \in DOMAIN call.before
    /\ call.before[call.id].ReconciliationID # ""

C28_CreateNewBilletSucceeds ==
    ( /\ call.op = "CreateBillet"
      /\ validateBillet(call.arg[1], now) = Nil
      /\ call.id \notin DOMAIN call.before )
    => /\ call.err = Nil
       /\ call.result = call.arg
       /\ call.id \in DOMAIN table
       /\ table[call.id] = call.arg[1]

\* C29: CreateMany of each repository persists the whole batch or
\* nothing: until it returns the table is as it was, it returns nil only
\* with every record of the batch stored, and when it returns an error the
\* table is as it was; the transaction is never left open.
C29_CreateManyAtomic ==
    call.op = "CreateMany" =>
        /\ call.pc # "returned" => table = call.before
        /\ call.pc = "returned" =>
              /\ call.tx # "open"
              /\ IF call.err = Nil
                 THEN table = WithRows(call.before, batch)
                 ELSE table = call.before

\* CreateMany has returned an error after one insert succeeded and the
\* next one failed, and the table is as it was.
C29_Witness ==
    /\ call.op = "CreateMany"
    /\ call.pc = "returned"
    /\ call.err # Nil
    /\ Len(call.inserted) = 1
    /\ call.k = 2
    /\ call.tx = "rolledback"
    /\ table = call.before

\* C30: any two Reconciliation records created by NewReconciliation have
\* distinct IDs, also when both are created within one second.
C30_DistinctReconciliationIDs ==
    \A a, b \in DOMAIN batch :
        a # b => batch[a].ID # batch[b].ID

====
